---- MODULE Spec2Model ----
(***************************************************************************)
(* A model of payeer/api.py: the PayeerApi client (wallet validation,      *)
(* description encoding, signature generation, the merchant checkout       *)
(* payload, the merchant callback handler and the remote API wrappers).    *)
(*                                                                         *)
(* Representation.  A Python str is a sequence of one-character strings    *)
(* (<<"P","1">> is 'P1'); "\n" is the newline character and "U+00E9" one   *)
(* non-ASCII character.  Dictionary keys, exception names and operation    *)
(* names are TLA+ strings.  A dict whose order is not observed is a        *)
(* function on its key set; the checkout params dict, whose insertion      *)
(* order urlencode observes, is a sequence of <<key, value>> pairs.        *)
(* A call's outcome is Return(v) or Raise(exception, argument).            *)
(***************************************************************************)
EXTENDS Integers, Sequences, FiniteSets, TLC

VARIABLES self, PAYEER, call, ret, http, steps

vars == <<self, PAYEER, call, ret, http, steps>>

----------------------------------------------------------------------------
(* Python values and outcomes *)

Return(v) == [kind |-> "return", value |-> v]

Raise(e, a) == [kind |-> "raise", exc |-> e, arg |-> a]

PyNone == [type |-> "NoneType", items |-> <<>>]

PyTuple(s) == [type |-> "tuple", items |-> s]

Digits == {"0", "1", "2", "3", "4", "5", "6", "7", "8", "9"}

RECURSIVE Rep(_, _)
Rep(c, n) == IF n = 0 THEN <<>> ELSE <<c>> \o Rep(c, n - 1)

RECURSIVE SeqsUpTo(_, _)
SeqsUpTo(S, n) ==
    IF n = 0 THEN {<<>>}
    ELSE LET shorter == SeqsUpTo(S, n - 1)
         IN  shorter \cup {Append(s, c) : s \in shorter, c \in S}

----------------------------------------------------------------------------
(* WalletValidator: regex 'P\d{7,12}$', applied by RegexValidator.__call__  *)
(* with regex.search, which looks for a match starting at any position; $   *)
(* matches at the end of the string and before a newline that ends it.      *)

MinDigits == 7

MaxDigits == 12

AtEnd(s, p) == \/ p = Len(s) + 1
               \/ p = Len(s) /\ s[p] = "\n"

MatchAt(s, i) ==
    /\ s[i] = "P"
    /\ \E n \in MinDigits..MaxDigits :
          /\ i + n <= Len(s)
          /\ \A j \in (i + 1)..(i + n) : s[j] \in Digits
          /\ AtEnd(s, i + n + 1)

RegexSearch(s) == \E i \in 1..Len(s) : MatchAt(s, i)

validate_wallet(wallet) ==
    IF RegexSearch(wallet) THEN Return(PyNone)
    ELSE Raise("ValidationError", <<"wallet">>)

----------------------------------------------------------------------------
(* generate_description: base64.b64encode(description.encode('utf-8'))      *)

Ord(c) ==
    CASE c = "\n" -> 10 [] c = " " -> 32 [] c = "+" -> 43 [] c = "/" -> 47
      [] c = ":" -> 58 [] c = "=" -> 61 [] c = "." -> 46
      [] c = "0" -> 48 [] c = "1" -> 49
      [] c = "T" -> 84 [] c = "a" -> 97 [] c = "b" -> 98 [] c = "c" -> 99
      [] c = "d" -> 100 [] c = "e" -> 101 [] c = "o" -> 111 [] c = "r" -> 114
      [] c = "s" -> 115 [] c = "t" -> 116 [] c = "x" -> 120 [] c = "y" -> 121

Utf8Char(c) == IF c = "U+00E9" THEN <<195, 169>> ELSE <<Ord(c)>>

RECURSIVE Utf8(_)
Utf8(s) == IF s = <<>> THEN <<>> ELSE Utf8Char(Head(s)) \o Utf8(Tail(s))

B64Alphabet ==
    << "A", "B", "C", "D", "E", "F", "G", "H", "I", "J", "K", "L", "M",
       "N", "O", "P", "Q", "R", "S", "T", "U", "V", "W", "X", "Y", "Z",
       "a", "b", "c", "d", "e", "f", "g", "h", "i", "j", "k", "l", "m",
       "n", "o", "p", "q", "r", "s", "t", "u", "v", "w", "x", "y", "z",
       "0", "1", "2", "3", "4", "5", "6", "7", "8", "9", "+", "/" >>

B64(i) == B64Alphabet[i + 1]

RECURSIVE b64encode(_)
b64encode(b) ==
    IF Len(b) = 0 THEN <<>>
    ELSE IF Len(b) = 1 THEN
        << B64(b[1] \div 4), B64((b[1] % 4) * 16), "=", "=" >>
    ELSE IF Len(b) = 2 THEN
        << B64(b[1] \div 4), B64((b[1] % 4) * 16 + b[2] \div 16),
           B64((b[2] % 16) * 4), "=" >>
    ELSE
        << B64(b[1] \div 4), B64((b[1] % 4) * 16 + b[2] \div 16),
           B64((b[2] % 16) * 4 + b[3] \div 64), B64(b[3] % 64) >>
        \o b64encode(SubSeq(b, 4, Len(b)))

generate_description(description) == b64encode(Utf8(description))

----------------------------------------------------------------------------
(* generate_signature: sha256(':'.join(params).encode()).hexdigest().upper() *)
(* SHA-256 is idealised as collision free: the digest of a string is that    *)
(* string behind the marker "SHA256", which no input string contains.        *)
(* str.join raises TypeError when its argument is not iterable (None).       *)

RECURSIVE Join(_, _)
Join(sep, items) ==
    IF Len(items) = 0 THEN <<>>
    ELSE IF Len(items) = 1 THEN items[1]
    ELSE items[1] \o sep \o Join(sep, Tail(items))

HexDigestUpper(s) == <<"SHA256">> \o s

generate_signature(params) ==
    IF params.type # "NoneType"
    THEN Return(HexDigestUpper(Join(<<":">>, params.items)))
    ELSE Raise("TypeError", <<"can only join an iterable">>)

----------------------------------------------------------------------------
(* dict: the checkout params mapping, in insertion order *)

DictKeys(d) == {d[i][1] : i \in 1..Len(d)}

DictGet(d, k) == d[CHOOSE i \in 1..Len(d) : d[i][1] = k][2]

DictSet(d, k, v) ==
    IF k \in DictKeys(d)
    THEN [i \in 1..Len(d) |-> IF d[i][1] = k THEN <<k, v>> ELSE d[i]]
    ELSE Append(d, <<k, v>>)

RECURSIVE DictUpdateKeepExisting(_, _)
DictUpdateKeepExisting(d, other) ==
    IF other = <<>> THEN d
    ELSE DictUpdateKeepExisting(
             IF other[1][1] \in DictKeys(d) THEN d
             ELSE Append(d, other[1]), Tail(other))

(* params.update(kwargs) *)
RECURSIVE DictUpdate(_, _)
DictUpdate(d, other) ==
    IF other = <<>> THEN d
    ELSE DictUpdate(DictSet(d, other[1][1], other[1][2]), Tail(other))

(* urllib.parse.urlencode(params): 'k=quote_plus(v)' for each item in dict  *)
(* order, joined by '&'; the result is kept as the sequence of              *)
(* <<k, quote_plus(v)>> items.  Every key here is made of safe characters.  *)

Alnum == {B64Alphabet[i] : i \in 1..62}

Safe(c) == c \in Alnum \cup {"_", ".", "-", "~", "SHA256"}

HexChars == << "0", "1", "2", "3", "4", "5", "6", "7",
               "8", "9", "A", "B", "C", "D", "E", "F" >>

PercentByte(b) == << "%", HexChars[(b \div 16) + 1], HexChars[(b % 16) + 1] >>

RECURSIVE PercentBytes(_)
PercentBytes(bs) ==
    IF bs = <<>> THEN <<>> ELSE PercentByte(Head(bs)) \o PercentBytes(Tail(bs))

QuoteChar(c) == IF Safe(c) THEN <<c>>
                ELSE IF c = " " THEN <<"+">>
                ELSE PercentBytes(Utf8Char(c))

RECURSIVE quote_plus(_)
quote_plus(s) == IF s = <<>> THEN <<>> ELSE QuoteChar(Head(s)) \o quote_plus(Tail(s))

urlencode(d) == [i \in 1..Len(d) |-> <<d[i][1], quote_plus(d[i][2])>>]

----------------------------------------------------------------------------
(* MerchantForm (payeer/forms.py) and LANGUAGE_RU (payeer/constants.py): a  *)
(* Django form over order_id, amount, currency, description and language.   *)
(* is_valid() returns a flag and raises nothing; cleaned_data then holds    *)
(* exactly the fields that validated.                                       *)

LANGUAGE_RU == <<"r", "u">>

Currencies == { <<"U", "S", "D">>, <<"E", "U", "R">>, <<"R", "U", "B">> }

Languages == { <<"r", "u">>, <<"e", "n">> }

IsNumeric(s) ==
    /\ \E i \in 1..Len(s) : s[i] \in Digits
    /\ \A i \in 1..Len(s) : s[i] \in Digits \cup {"."}
    /\ Cardinality({i \in 1..Len(s) : s[i] = "."}) <= 1

FieldValid(name, value) ==
    CASE name = "order_id"    -> value # <<>>
      [] name = "amount"      -> IsNumeric(value)
      [] name = "currency"    -> value \in Currencies
      [] name = "description" -> value # <<>>
      [] name = "language"    -> value \in Languages

MerchantForm_cleaned_data(fields) ==
    [name \in {n \in DOMAIN fields : FieldValid(n, fields[n])} |-> fields[name]]

----------------------------------------------------------------------------
(* PayeerApi.merchant *)

domain == <<"https://payeer.com/">>

merchant_url == domain \o <<"merchant/?">>

api_url == domain \o <<"ajax/api/api.php">>

ParamsForSignAmountFirst(merchant_id, data, desc_str, secret) ==
    PyTuple(<< merchant_id, data["amount"], data["order_id"], data["currency"],
               desc_str, secret >>)

ParamsForSign(merchant_id, data, desc_str, secret) ==
    PyTuple(<< merchant_id, data["order_id"], data["amount"], data["currency"],
               desc_str, secret >>)

MerchantParams(merchant_id, data, desc_str, signature) ==
    << <<"m_shop", merchant_id>>,
       <<"m_orderid", data["order_id"]>>,
       <<"m_amount", data["amount"]>>,
       <<"m_curr", data["currency"]>>,
       <<"m_desc", desc_str>>,
       <<"m_sign", signature>>,
       <<"m_process", <<"s", "e", "n", "d">> >>,
       <<"lang", data["language"]>> >>

MerchantResult(params, signature, description) ==
    [ location    |-> merchant_url \o urlencode(params),
      signature   |-> signature,
      description |-> description,
      params      |-> params ]

merchant(order_id, amount, currency, description, language, kwargs) ==
    LET w == validate_wallet(self.account) IN
    IF w.kind = "raise" THEN w
    ELSE
    LET lang == IF language = <<>>
                THEN (IF "LANGUAGE" \in DOMAIN PAYEER
                      THEN PAYEER["LANGUAGE"] ELSE LANGUAGE_RU)
                ELSE language[1]
        data == MerchantForm_cleaned_data(
                    [ order_id    |-> order_id,
                      amount      |-> amount,
                      currency    |-> currency,
                      description |-> description,
                      language    |-> lang ])
        desc_str == generate_description(
                        IF "description" \in DOMAIN data
                        THEN data["description"] ELSE <<>>)
    IN
    IF "order_id" \notin DOMAIN data THEN Raise("KeyError", <<"order_id">>)
    ELSE IF "amount" \notin DOMAIN data THEN Raise("KeyError", <<"amount">>)
    ELSE IF "currency" \notin DOMAIN data THEN Raise("KeyError", <<"currency">>)
    ELSE
    LET sig == generate_signature(
                   ParamsForSign(self.merchant_id, data, desc_str,
                                 self.merchant_secret_key))
    IN
    IF sig.kind = "raise" THEN sig
    ELSE IF "language" \notin DOMAIN data THEN Raise("KeyError", <<"language">>)
    ELSE
    LET params == DictUpdate(
                      MerchantParams(self.merchant_id, data, desc_str, sig.value),
                      kwargs)
    IN Return(MerchantResult(params, sig.value, description))


----------------------------------------------------------------------------
(* get_client_ip.  A header value is a string whose elements are whole IP  *)
(* addresses, "," and " ".  REMOTE_ADDR is always present in META.         *)

LastComma(s) ==
    IF \E i \in 1..Len(s) : s[i] = ","
    THEN CHOOSE i \in 1..Len(s) : s[i] = "," /\ \A j \in (i + 1)..Len(s) : s[j] # ","
    ELSE 0

SplitLast(s) == SubSeq(s, LastComma(s) + 1, Len(s))

RECURSIVE Strip(_)
Strip(s) ==
    IF s = <<>> THEN s
    ELSE IF Head(s) = " " THEN Strip(Tail(s))
    ELSE IF s[Len(s)] = " " THEN Strip(SubSeq(s, 1, Len(s) - 1))
    ELSE s

MetaGet(META, k) == IF k \in DOMAIN META THEN META[k] ELSE <<>>

get_client_ip(request) ==
    IF MetaGet(request.META, "HTTP_X_FORWARDED_FOR") # <<>>
    THEN Strip(SplitLast(request.META["HTTP_X_FORWARDED_FOR"]))
    ELSE IF MetaGet(request.META, "HTTP_X_REAL_IP") # <<>>
    THEN request.META["HTTP_X_REAL_IP"]
    ELSE request.META["REMOTE_ADDR"]

----------------------------------------------------------------------------
(* PayeerApi.merchant_handler *)

IpA == <<"185.71.65.92">>

IpB == <<"203.0.113.7">>

PAYEER_ALLOWED_IPS == {IpA}

needed_params ==
    << "m_operation_id", "m_operation_ps", "m_operation_date",
       "m_operation_pay_date", "m_shop", "m_orderid", "m_amount", "m_curr",
       "m_desc", "m_status" >>

PostGet(POST, k) == IF k \in DOMAIN POST THEN POST[k] ELSE <<>>

ReceivedParams(POST) ==
    LET fixed == [i \in 1..Len(needed_params) |->
                    <<needed_params[i], PostGet(POST, needed_params[i])>>]
    IN  IF PostGet(POST, "m_params") # <<>>
        THEN DictSet(fixed, "m_params", POST["m_params"])
        ELSE fixed

DictValues(d) == [i \in 1..Len(d) |-> d[i][2]]

(* list(received_params.values()).append(key): list.append returns None *)
HandlerParamsForSign(received_params, secret) == PyNone

IpRejected(request_ip) == request_ip \notin PAYEER_ALLOWED_IPS

HttpResponse(content) == [status |-> 200, content |-> content]

Success == <<"s", "u", "c", "c", "e", "s", "s">>

HandlerDecision(received_params, sign) ==
    LET orderid == DictGet(received_params, "m_orderid") IN
    IF DictGet(received_params, "m_operation_id") = <<>>
    THEN Return(<<FALSE, received_params,
                  HttpResponse(orderid \o <<"|", "error">>)>>)
    ELSE IF "m_sign" \notin DictKeys(received_params)
    THEN Raise("KeyError", <<"m_sign">>)
    ELSE IF sign = DictGet(received_params, "m_sign")
            /\ DictGet(received_params, "m_status") = Success
    THEN Return(<<TRUE, received_params,
                  HttpResponse(orderid \o <<"|", "success">>)>>)
    ELSE Return(<<FALSE, received_params,
                  HttpResponse(orderid \o <<"|", "error">>)>>)

merchant_handlerCheckAfterSign(request) ==
    LET request_ip == get_client_ip(request)
        received_params == ReceivedParams(request.POST)
        params_for_sign == HandlerParamsForSign(received_params,
                                                self.merchant_secret_key)
        sign == generate_signature(params_for_sign)
    IN  IF sign.kind = "raise"
        THEN [ ret   |-> sign,
               steps |-> <<"get_client_ip", "received_params",
                           "generate_signature">> ]
        ELSE IF IpRejected(request_ip)
        THEN [ ret   |-> Raise("PayeerAPIException", <<"Wrong request IP">>),
               steps |-> <<"get_client_ip", "received_params",
                           "generate_signature">> ]
        ELSE [ ret   |-> HandlerDecision(received_params, sign.value),
               steps |-> <<"get_client_ip", "received_params",
                           "generate_signature", "compare">> ]

(* The outcome, and the statements that ran before it. *)
merchant_handler(request) ==
    LET request_ip == get_client_ip(request) IN
    IF IpRejected(request_ip)
    THEN [ ret   |-> Raise("PayeerAPIException", <<"Wrong request IP">>),
           steps |-> <<"get_client_ip">> ]
    ELSE
    LET received_params == ReceivedParams(request.POST)
        params_for_sign == HandlerParamsForSign(received_params,
                                                self.merchant_secret_key)
        sign == generate_signature(params_for_sign)
    IN  IF sign.kind = "raise"
        THEN [ ret   |-> sign,
               steps |-> <<"get_client_ip", "received_params",
                           "generate_signature">> ]
        ELSE [ ret   |-> HandlerDecision(received_params, sign.value),
               steps |-> <<"get_client_ip", "received_params",
                           "generate_signature", "compare">> ]

----------------------------------------------------------------------------
(* PayeerApi.request_api and the named actions.  resp is what the POST     *)
(* and .json() produce: [ok |-> FALSE] when the transport or the JSON      *)
(* parse fails, else the parsed mapping in json.                           *)

Update(d, other) ==
    [k \in DOMAIN d \cup DOMAIN other |-> IF k \in DOMAIN other THEN other[k] ELSE d[k]]

UpdateKeepCaller(d, other) ==
    [k \in DOMAIN d \cup DOMAIN other |-> IF k \in DOMAIN d THEN d[k] ELSE other[k]]

Credentials ==
    [ account |-> self.account, apiId |-> self.api_id, apiPass |-> self.api_pass ]

PostedParamsCallerWins(params) == UpdateKeepCaller(params, Credentials)

PostedParams(params) == Update(params, Credentials)

Truthy(json, k) == k \in DOMAIN json /\ json[k] # <<>>

ErrorsRaise(json) == Truthy(json, "errors")

request_api(params, resp) ==
    LET data == PostedParams(params)
        exchange == << [url |-> api_url, data |-> data, args |-> params,
                        resp |-> resp] >>
    IN  IF ~resp.ok
        THEN [ret |-> Raise("RequestException", <<"transport">>), http |-> exchange]
        ELSE IF ErrorsRaise(resp.json)
        THEN [ret |-> Raise("PayeerAPIException", resp.json["errors"]),
              http |-> exchange]
        ELSE [ret |-> Return(resp.json), http |-> exchange]

(* response[field]: KeyError when the response lacks the field *)
Subscript(r, field) ==
    IF r.ret.kind = "raise" THEN r
    ELSE IF field \in DOMAIN r.ret.value
    THEN [r EXCEPT !.ret = Return(r.ret.value[field])]
    ELSE [r EXCEPT !.ret = Raise("KeyError", <<field>>)]

SwallowNothing(r) == IF r.ret.kind = "raise" THEN r ELSE [r EXCEPT !.ret = Return(TRUE)]

(* try: request_api(...) except PayeerAPIException: return False; return True *)
SwallowApiError(r) ==
    IF r.ret.kind = "raise"
    THEN (IF r.ret.exc = "PayeerAPIException"
          THEN [r EXCEPT !.ret = Return(FALSE)] ELSE r)
    ELSE [r EXCEPT !.ret = Return(TRUE)]

get_balance(resp) ==
    Subscript(request_api([action |-> <<"balance">>], resp), "balance")

check_user(user, resp) ==
    SwallowApiError(request_api([action |-> <<"checkUser">>, user |-> user], resp))

get_exchange_rate(output, resp) ==
    Subscript(request_api([action |-> <<"getExchangeRate">>, output |-> output],
                          resp), "rate")

get_pay_systems(resp) ==
    Subscript(request_api([action |-> <<"getPaySystems">>], resp), "list")

get_history_info(history_id, resp) ==
    Subscript(request_api([action |-> <<"historyInfo">>, historyId |-> history_id],
                          resp), "info")

shop_order_info(shop_id, order_id, resp) ==
    request_api([action |-> <<"shopOrderInfo">>, shopId |-> shop_id,
                 orderId |-> order_id], resp)

(* comment, protect, protect_period, protect_code: <<>> is None, <<v>> is v *)
TransferData(sum, to, cur_in, cur_out, comment, protect, protect_period, protect_code) ==
    LET base == [ action |-> <<"transfer">>, sum |-> sum, to |-> to,
                  curIn |-> cur_in, curOut |-> cur_out ]
        c  == IF comment # <<>> THEN [comment |-> comment[1]] ELSE <<>>
        p  == IF protect # <<>> THEN [protect |-> protect[1]] ELSE <<>>
        pp == IF protect # <<>> /\ protect_period # <<>>
              THEN [protectPeriod |-> protect_period[1]] ELSE <<>>
        pc == IF protect # <<>> /\ protect_code # <<>>
              THEN [protectCode |-> protect_code[1]] ELSE <<>>
    IN  Update(Update(Update(Update(base, c), p), pp), pc)

HistoryIdPositiveOrZero(json) ==
    (IF "historyId" \in DOMAIN json THEN json["historyId"] ELSE 0) >= 0

(* response.get('historyId', 0) > 0 *)
HistoryIdPositive(json) ==
    (IF "historyId" \in DOMAIN json THEN json["historyId"] ELSE 0) > 0

transfer(sum, to, cur_in, cur_out, comment, protect, protect_period, protect_code, resp) ==
    LET w == validate_wallet(to) IN
    IF w.kind = "raise" THEN [ret |-> w, http |-> <<>>]
    ELSE
    LET r == request_api(TransferData(sum, to, cur_in, cur_out, comment, protect,
                                      protect_period, protect_code), resp)
    IN  IF r.ret.kind = "raise" THEN r
        ELSE [r EXCEPT !.ret = Return(HistoryIdPositive(r.ret.value))]

OutputData(action, ps, ps_account, sum_in, cur_in, cur_out) ==
    [ action |-> action, ps |-> ps, param_ACCOUNT_NUMBER |-> ps_account,
      sumIn |-> sum_in, curIn |-> cur_in, curOut |-> cur_out ]

check_output(ps, ps_account, sum_in, cur_in, cur_out, resp) ==
    SwallowApiError(
        request_api(OutputData(<<"initOutput">>, ps, ps_account, sum_in, cur_in,
                               cur_out), resp))

output(ps, ps_account, sum_in, cur_in, cur_out, resp) ==
    request_api(OutputData(<<"output">>, ps, ps_account, sum_in, cur_in, cur_out),
                resp)

history(params, resp) ==
    Subscript(request_api(Update(params, [action |-> <<"history">>]), resp),
              "history")

----------------------------------------------------------------------------
(* Inputs *)

MaxPrefix == 2

MaxDigitRun == 13

MaxKwargs == 2

MaxHistoryId == 2

ValidWallet == <<"P">> \o Rep("1", MinDigits)

Wallets ==
    { pre \o Rep("1", n) \o suf :
        pre \in SeqsUpTo({"P", "x", "1"}, MaxPrefix),
        n \in 0..MaxDigitRun,
        suf \in {<<>>, <<"x">>, <<"\n">>} }

Accounts == {ValidWallet, <<"x">>}

Settings ==
    { [ACCOUNT |-> a, API_ID |-> <<"api-id">>, API_PASS |-> <<"api-pass">>,
       MERCHANT_ID |-> <<"s", "h", "o", "p">>, MERCHANT_SECRET_KEY |-> <<"k", "e", "y">>] @@ l :
        a \in Accounts, l \in {<<>>, [LANGUAGE |-> <<"e", "n">>]} }

TestOrder == <<"T", "e", "s", "t", " ", "o", "r", "d", "e", "r">>

OrderIds == {<<"7">>, <<"1", "0", "0", "1">>}

Amounts == {<<"1", "0", ".", "0", "0">>, <<"a", "b", "c">>}

CurrencyInputs == {<<"U", "S", "D">>, <<"x", "x", "x">>}

Descriptions == {<<>>, <<"a">>, <<"U+00E9">>, <<"a", "b", "c">>, TestOrder}

LanguageInputs == {<<>>, << <<"r", "u">> >>, << <<"x", "x">> >>}

KwKeys == {"m_shop", "m_sign", "lang", "custom"}

KwVals == {<<"x">>, <<"a", " ", "=">>}

KwargsInputs ==
    { kw \in SeqsUpTo(KwKeys \X KwVals, MaxKwargs) :
        \A i, j \in 1..Len(kw) : kw[i][1] = kw[j][1] => i = j }

ForwardedFor ==
    { <<>>, IpA, IpB, IpA \o <<",", " ">> \o IpB, IpB \o <<",", " ">> \o IpA,
      IpA \o <<",">>, IpA \o <<" ">> \o IpA }

Metas ==
    { [REMOTE_ADDR |-> r] @@ x @@ f :
        r \in {IpA, IpB},
        x \in {<<>>, [HTTP_X_REAL_IP |-> IpA], [HTTP_X_REAL_IP |-> IpB]},
        f \in {<<>>} \cup {[HTTP_X_FORWARDED_FOR |-> h] : h \in ForwardedFor} }

(* The signature the remote service sends: over the ten fields and m_params *)
(* in order, with the merchant secret key last.                             *)
CallbackSign(POST, secret) ==
    HexDigestUpper(Join(<<":">>, Append(DictValues(ReceivedParams(POST)), secret)))

PostBodies(secret) ==
    { [ m_operation_ps |-> <<"2609">>, m_shop |-> <<"s", "h", "o", "p">>,
        m_amount |-> <<"1", "0", ".", "0", "0">>, m_curr |-> <<"U", "S", "D">>,
        m_status |-> st ] @@ oid @@ ord @@ mp :
        st \in {Success, <<"f", "a", "i", "l">>},
        oid \in {<<>>, [m_operation_id |-> <<>>], [m_operation_id |-> <<"7">>]},
        ord \in {<<>>, [m_orderid |-> <<"1", "0", "0", "1">>]},
        mp \in {<<>>, [m_params |-> <<"x">>]} }

Requests(secret) ==
    { [META |-> m, POST |-> b @@ sg] :
        m \in Metas, b \in PostBodies(secret),
        sg \in {<<>>, [m_sign |-> <<"B", "A", "D">>]} }
    \cup
    { [META |-> m, POST |-> b @@ [m_sign |-> CallbackSign(b, secret)]] :
        m \in Metas, b \in PostBodies(secret) }

Responses(field) ==
    { [ok |-> FALSE, json |-> <<>>] }
    \cup
    { [ok |-> TRUE, json |-> e @@ f] :
        e \in {<<>>, [errors |-> <<>>], [errors |-> <<"e1">>]},
        f \in {<<>>, field :> <<"data">>} }

TransferResponses ==
    { [ok |-> FALSE, json |-> <<>>] }
    \cup
    { [ok |-> TRUE, json |-> e @@ h] :
        e \in {<<>>, [errors |-> <<>>], [errors |-> <<"e1">>]},
        h \in {<<>>} \cup {[historyId |-> n] : n \in (0 - MaxHistoryId)..MaxHistoryId} }

Opt(v) == {<<>>, <<v>>}

HistoryKeys == {"sort", "account", "apiPass", "action"}

HistoryParams == UNION { [K -> {<<"x">>, <<"y">>}] : K \in SUBSET HistoryKeys }

----------------------------------------------------------------------------
(* The client: the module-level singleton built from settings, and one     *)
(* action per public operation.  call is the operation and its arguments,  *)
(* ret its outcome, http the requests it posted with their responses,      *)
(* steps the statements merchant_handler ran.                              *)

PayeerApi(account, api_id, api_pass, merchant_id, merchant_secret_key) ==
    [ account |-> account, api_id |-> api_id, api_pass |-> api_pass,
      merchant_id |-> merchant_id, merchant_secret_key |-> merchant_secret_key ]

(* No call is in progress: the client serves one call at a time. *)
Idle == call = [op |-> "idle"]

Init ==
    /\ PAYEER \in Settings
    /\ self = PayeerApi(PAYEER["ACCOUNT"], PAYEER["API_ID"], PAYEER["API_PASS"],
                        PAYEER["MERCHANT_ID"], PAYEER["MERCHANT_SECRET_KEY"])
    /\ call = [op |-> "idle"]
    /\ ret = Return(PyNone)
    /\ http = <<>>
    /\ steps = <<>>

ValidateWallet ==
    /\ Idle
    /\ \E wallet \in Wallets :
           /\ call' = [op |-> "validate_wallet", wallet |-> wallet]
           /\ ret' = validate_wallet(wallet)
           /\ http' = <<>>
           /\ steps' = <<>>
           /\ UNCHANGED <<self, PAYEER>>

Merchant ==
    /\ Idle
    /\ \E order_id \in OrderIds, amount \in Amounts, currency \in CurrencyInputs,
          description \in Descriptions, language \in LanguageInputs,
          kwargs \in KwargsInputs :
           /\ call' = [op |-> "merchant", order_id |-> order_id, amount |-> amount,
                       currency |-> currency, description |-> description,
                       language |-> language, kwargs |-> kwargs]
           /\ ret' = merchant(order_id, amount, currency, description, language,
                              kwargs)
           /\ http' = <<>>
           /\ steps' = <<>>
           /\ UNCHANGED <<self, PAYEER>>

MerchantHandler ==
    /\ Idle
    /\ \E request \in Requests(self.merchant_secret_key) :
           LET r == merchant_handler(request) IN
           /\ call' = [op |-> "merchant_handler", request |-> request]
           /\ ret' = r.ret
           /\ http' = <<>>
           /\ steps' = r.steps
           /\ UNCHANGED <<self, PAYEER>>

RequestApi ==
    /\ Idle
    /\ \E params \in HistoryParams, resp \in Responses("history") :
           LET r == request_api(params, resp) IN
           /\ call' = [op |-> "request_api", params |-> params]
           /\ ret' = r.ret
           /\ http' = r.http
           /\ steps' = <<>>
           /\ UNCHANGED <<self, PAYEER>>

GetBalance ==
    /\ Idle
    /\ \E resp \in Responses("balance") :
           LET r == get_balance(resp) IN
           /\ call' = [op |-> "get_balance"]
           /\ ret' = r.ret
           /\ http' = r.http
           /\ steps' = <<>>
           /\ UNCHANGED <<self, PAYEER>>

CheckUser ==
    /\ Idle
    /\ \E user \in {ValidWallet, <<"x">>}, resp \in Responses("user") :
           LET r == check_user(user, resp) IN
           /\ call' = [op |-> "check_user", user |-> user]
           /\ ret' = r.ret
           /\ http' = r.http
           /\ steps' = <<>>
           /\ UNCHANGED <<self, PAYEER>>

GetExchangeRate ==
    /\ Idle
    /\ \E out \in {<<"N">>, <<"Y">>}, resp \in Responses("rate") :
           LET r == get_exchange_rate(out, resp) IN
           /\ call' = [op |-> "get_exchange_rate", output |-> out]
           /\ ret' = r.ret
           /\ http' = r.http
           /\ steps' = <<>>
           /\ UNCHANGED <<self, PAYEER>>

GetPaySystems ==
    /\ Idle
    /\ \E resp \in Responses("list") :
           LET r == get_pay_systems(resp) IN
           /\ call' = [op |-> "get_pay_systems"]
           /\ ret' = r.ret
           /\ http' = r.http
           /\ steps' = <<>>
           /\ UNCHANGED <<self, PAYEER>>

GetHistoryInfo ==
    /\ Idle
    /\ \E history_id \in {<<"1">>, <<"2">>}, resp \in Responses("info") :
           LET r == get_history_info(history_id, resp) IN
           /\ call' = [op |-> "get_history_info", history_id |-> history_id]
           /\ ret' = r.ret
           /\ http' = r.http
           /\ steps' = <<>>
           /\ UNCHANGED <<self, PAYEER>>

ShopOrderInfo ==
    /\ Idle
    /\ \E shop_id \in {<<"s", "h", "o", "p">>}, order_id \in OrderIds,
          resp \in Responses("info") :
           LET r == shop_order_info(shop_id, order_id, resp) IN
           /\ call' = [op |-> "shop_order_info", shop_id |-> shop_id,
                       order_id |-> order_id]
           /\ ret' = r.ret
           /\ http' = r.http
           /\ steps' = <<>>
           /\ UNCHANGED <<self, PAYEER>>

Transfer ==
    /\ Idle
    /\ \E to \in {ValidWallet, <<"x">> \o ValidWallet, <<"P", "1">>},
          comment \in Opt(<<"c">>), protect \in Opt(<<"Y">>),
          protect_period \in Opt(<<"3">>), protect_code \in Opt(<<"1", "2">>),
          resp \in TransferResponses :
           LET r == transfer(<<"1">>, to, <<"U", "S", "D">>, <<"U", "S", "D">>,
                             comment, protect, protect_period, protect_code, resp)
           IN
           /\ call' = [op |-> "transfer", sum |-> <<"1">>, to |-> to,
                       cur_in |-> <<"U", "S", "D">>, cur_out |-> <<"U", "S", "D">>,
                       comment |-> comment, protect |-> protect,
                       protect_period |-> protect_period,
                       protect_code |-> protect_code]
           /\ ret' = r.ret
           /\ http' = r.http
           /\ steps' = <<>>
           /\ UNCHANGED <<self, PAYEER>>

CheckOutput ==
    /\ Idle
    /\ \E ps \in {<<"1136053">>}, ps_account \in {ValidWallet, <<"x">>},
          resp \in Responses("outputParams") :
           LET r == check_output(ps, ps_account, <<"1">>, <<"U", "S", "D">>,
                                 <<"U", "S", "D">>, resp)
           IN
           /\ call' = [op |-> "check_output", ps |-> ps, ps_account |-> ps_account]
           /\ ret' = r.ret
           /\ http' = r.http
           /\ steps' = <<>>
           /\ UNCHANGED <<self, PAYEER>>

Output ==
    /\ Idle
    /\ \E ps \in {<<"1136053">>}, ps_account \in {ValidWallet, <<"x">>},
          resp \in Responses("historyId") :
           LET r == output(ps, ps_account, <<"1">>, <<"U", "S", "D">>,
                           <<"U", "S", "D">>, resp)
           IN
           /\ call' = [op |-> "output", ps |-> ps, ps_account |-> ps_account]
           /\ ret' = r.ret
           /\ http' = r.http
           /\ steps' = <<>>
           /\ UNCHANGED <<self, PAYEER>>

History ==
    /\ Idle
    /\ \E params \in HistoryParams, resp \in Responses("history") :
           LET r == history(params, resp) IN
           /\ call' = [op |-> "history", params |-> params]
           /\ ret' = r.ret
           /\ http' = r.http
           /\ steps' = <<>>
           /\ UNCHANGED <<self, PAYEER>>

(* The caller takes the outcome; the client is ready for the next call. *)
Complete ==
    /\ ~Idle
    /\ call' = [op |-> "idle"]
    /\ ret' = Return(PyNone)
    /\ http' = <<>>
    /\ steps' = <<>>
    /\ UNCHANGED <<self, PAYEER>>

Next ==
    \/ Complete
    \/ ValidateWallet
    \/ Merchant
    \/ MerchantHandler
    \/ RequestApi
    \/ GetBalance
    \/ CheckUser
    \/ GetExchangeRate
    \/ GetPaySystems
    \/ GetHistoryInfo
    \/ ShopOrderInfo
    \/ Transfer
    \/ CheckOutput
    \/ Output
    \/ History

Spec == Init /\ [][Next]_vars

----------------------------------------------------------------------------
(* Properties *)

Op(name) == call.op = name

Returned == ret.kind = "return"

Raised(e) == ret.kind = "raise" /\ ret.exc = e

Posted == Len(http) = 1 /\ http[1].resp.ok

RemoteErrors == Posted /\ Truthy(http[1].resp.json, "errors")

(* base64 decoding, for checking m_desc *)
B64Index(c) == CHOOSE i \in 0..63 : B64Alphabet[i + 1] = c

RECURSIVE B64Decode(_)
B64Decode(s) ==
    IF s = <<>> THEN <<>>
    ELSE LET a == B64Index(s[1])
             b == B64Index(s[2])
         IN  IF s[3] = "=" THEN << a * 4 + b \div 16 >>
             ELSE IF s[4] = "="
             THEN << a * 4 + b \div 16, (b % 16) * 16 + B64Index(s[3]) \div 4 >>
             ELSE << a * 4 + b \div 16, (b % 16) * 16 + B64Index(s[3]) \div 4,
                     (B64Index(s[3]) % 4) * 64 + B64Index(s[4]) >>
                  \o B64Decode(SubSeq(s, 5, Len(s)))

TestOrderB64 ==
    << "V", "G", "V", "z", "d", "C", "B", "v", "c", "m", "R", "l", "c", "g",
       "=", "=" >>

HandlerIpAllowed == get_client_ip(call.request) \in PAYEER_ALLOWED_IPS

HandlerSignValid ==
    /\ "m_sign" \in DOMAIN call.request.POST
    /\ call.request.POST["m_sign"] =
          CallbackSign(call.request.POST, self.merchant_secret_key)

HandlerWellFormed ==
    /\ PostGet(call.request.POST, "m_status") = Success
    /\ PostGet(call.request.POST, "m_operation_id") # <<>>
    /\ HandlerSignValid

HandlerBody(word) ==
    HttpResponse(PostGet(call.request.POST, "m_orderid") \o <<"|", word>>)

(* C1: a callback from an allow-listed IP with status "success", a non-empty *)
(* operation id and the correctly recomputed m_sign is accepted: the handler *)
(* returns True, the extracted fields and the body "<m_orderid>|success".    *)
C1_ValidCallbackAccepted ==
    (Op("merchant_handler") /\ HandlerIpAllowed /\ HandlerWellFormed)
        => /\ Returned
           /\ ret.value = <<TRUE, ReceivedParams(call.request.POST),
                            HandlerBody("success")>>

(* C2: a request whose client IP is not allow-listed raises the             *)
(* authorization error before any field is extracted or any signature       *)
(* computed, whatever the POST fields are.                                  *)
C2_IpCheckedFirst ==
    (Op("merchant_handler") /\ ~HandlerIpAllowed)
        => /\ ret = Raise("PayeerAPIException", <<"Wrong request IP">>)
           /\ steps = <<"get_client_ip">>

C2_Witness ==
    /\ Op("merchant_handler")
    /\ ~HandlerIpAllowed
    /\ HandlerWellFormed
    /\ call.request.META["REMOTE_ADDR"] \in PAYEER_ALLOWED_IPS
    /\ Raised("PayeerAPIException")

(* C3: a callback from an allow-listed IP with a wrong status, a wrong       *)
(* m_sign or an empty operation id is rejected as a value: the handler       *)
(* returns False, the extracted fields and the body "<m_orderid>|error",     *)
(* and raises nothing.                                                       *)
C3_CorruptedCallbackRejectedAsValue ==
    (Op("merchant_handler") /\ HandlerIpAllowed /\ ~HandlerWellFormed)
        => /\ Returned
           /\ ret.value = <<FALSE, ReceivedParams(call.request.POST),
                            HandlerBody("error")>>

RaisingActions ==
    { "get_balance", "get_exchange_rate", "get_pay_systems", "get_history_info",
      "shop_order_info", "transfer", "output", "history" }

CheckActions == {"check_user", "check_output"}

(* C4: when the parsed response has a non-empty errors field, every named    *)
(* action raises PayeerAPIException carrying the errors, except check_user   *)
(* and check_output, which return False; without errors they return True.    *)
C4_RemoteErrorPropagation ==
    /\ (call.op \in RaisingActions /\ RemoteErrors)
          => ret = Raise("PayeerAPIException", http[1].resp.json["errors"])
    /\ (call.op \in CheckActions /\ RemoteErrors)
          => (Returned /\ ret.value = FALSE)
    /\ (call.op \in CheckActions /\ Posted /\ ~RemoteErrors)
          => (Returned /\ ret.value = TRUE)

C4_Witness ==
    /\ Op("check_output")
    /\ RemoteErrors
    /\ Returned
    /\ ret.value = FALSE

(* C5: for an error-free response to a transfer whose recipient wallet       *)
(* validated, transfer returns True exactly when the response has a          *)
(* historyId greater than zero, and False when it is absent, zero or         *)
(* negative.                                                                 *)
C5_TransferResult ==
    (Op("transfer") /\ Posted /\ ~RemoteErrors)
        => /\ Returned
           /\ ret.value = ( /\ "historyId" \in DOMAIN http[1].resp.json
                            /\ http[1].resp.json["historyId"] > 0 )

C5_Witness ==
    /\ Op("transfer")
    /\ Posted
    /\ ~RemoteErrors
    /\ "historyId" \in DOMAIN http[1].resp.json
    /\ http[1].resp.json["historyId"] = 0
    /\ Returned
    /\ ret.value = FALSE

EffectiveLanguage ==
    IF call.language # <<>> THEN call.language[1]
    ELSE IF "LANGUAGE" \in DOMAIN PAYEER THEN PAYEER["LANGUAGE"]
    ELSE <<"r", "u">>

OrderValid ==
    /\ call.order_id # <<>>
    /\ IsNumeric(call.amount)
    /\ call.currency \in Currencies
    /\ EffectiveLanguage \in Languages

ExpectedSign ==
    <<"SHA256">> \o self.merchant_id \o <<":">> \o call.order_id \o <<":">>
        \o call.amount \o <<":">> \o call.currency \o <<":">>
        \o DictGet(ret.value.params, "m_desc") \o <<":">>
        \o self.merchant_secret_key

(* C6: for a valid order with no extra parameters, merchant() returns params *)
(* with m_shop the merchant id, m_orderid, m_amount and m_curr the order's   *)
(* values, m_desc the base64 of the description, m_process "send" and m_sign *)
(* the signature over merchant id, order id, amount, currency, base64        *)
(* description and secret key in that order; signature equals m_sign.        *)
C6_SignedCheckoutPayload ==
    (Op("merchant") /\ call.kwargs = <<>>)
        => /\ (OrderValid /\ validate_wallet(self.account).kind = "return")
                 => Returned
           /\ Returned =>
                LET p == ret.value.params IN
                /\ DictGet(p, "m_shop") = self.merchant_id
                /\ DictGet(p, "m_orderid") = call.order_id
                /\ DictGet(p, "m_amount") = call.amount
                /\ DictGet(p, "m_curr") = call.currency
                /\ B64Decode(DictGet(p, "m_desc")) = Utf8(call.description)
                /\ call.description = TestOrder
                      => DictGet(p, "m_desc") = TestOrderB64
                /\ DictGet(p, "m_process") = <<"s", "e", "n", "d">>
                /\ DictGet(p, "m_sign") = ExpectedSign
                /\ ret.value.signature = DictGet(p, "m_sign")

C6_Witness ==
    /\ Op("merchant")
    /\ call.kwargs = <<>>
    /\ call.description = TestOrder
    /\ OrderValid
    /\ Returned
    /\ DictGet(ret.value.params, "m_desc") = TestOrderB64

(* C7: when the amount is not numeric, or the currency or the language is   *)
(* not a recognized code, merchant() fails with a validation error naming   *)
(* the offending field and returns no URL or signature.                     *)
C7_InvalidOrderIsValidationError ==
    (Op("merchant") /\ validate_wallet(self.account).kind = "return"
        /\ (~IsNumeric(call.amount) \/ call.currency \notin Currencies
              \/ EffectiveLanguage \notin Languages))
        => /\ Raised("ValidationError")
           /\ ret.arg \in {<<"amount">>, <<"currency">>, <<"language">>}

IsWalletFormat(s) ==
    /\ Len(s) - 1 \in MinDigits..MaxDigits
    /\ s[1] = "P"
    /\ \A j \in 2..Len(s) : s[j] \in Digits

(* C8: validate_wallet succeeds exactly on the letter P followed by 7 to 12 *)
(* digits and nothing else, and fails with ValidationError on every other   *)
(* string.                                                                  *)
C8_WalletFormatExact ==
    Op("validate_wallet")
        => /\ IsWalletFormat(call.wallet) => Returned
           /\ ~IsWalletFormat(call.wallet) => Raised("ValidationError")

ComputedKeys ==
    {"m_shop", "m_orderid", "m_amount", "m_curr", "m_desc", "m_sign",
     "m_process", "lang"}

Computed(k) ==
    CASE k = "m_shop"    -> self.merchant_id
      [] k = "m_orderid" -> call.order_id
      [] k = "m_amount"  -> call.amount
      [] k = "m_curr"    -> call.currency
      [] k = "m_desc"    -> generate_description(call.description)
      [] k = "m_sign"    -> ret.value.signature
      [] k = "m_process" -> <<"s", "e", "n", "d">>
      [] k = "lang"      -> EffectiveLanguage

KwargsKeys == {call.kwargs[i][1] : i \in 1..Len(call.kwargs)}

(* C9: every extra keyword parameter appears in the returned params with    *)
(* the caller's value, overriding a computed key of the same name; every    *)
(* computed key not among the extras keeps its computed value; location is  *)
(* the merchant endpoint followed by the URL-encoding of that final mapping.*)
C9_ExtrasLastWriteWins ==
    (Op("merchant") /\ Returned) =>
        LET p == ret.value.params IN
        /\ DictKeys(p) = ComputedKeys \cup KwargsKeys
        /\ Len(p) = Cardinality(DictKeys(p))
        /\ \A i \in 1..Len(call.kwargs) :
              DictGet(p, call.kwargs[i][1]) = call.kwargs[i][2]
        /\ \A k \in ComputedKeys \ KwargsKeys : DictGet(p, k) = Computed(k)
        /\ ret.value.location = merchant_url \o urlencode(p)
        /\ Len(ret.value.location) = Len(merchant_url) + Len(p)
        /\ \A i \in 1..Len(p) :
              LET item == ret.value.location[Len(merchant_url) + i] IN
              /\ item[1] = p[i][1]
              /\ p[i][2] = <<"a", " ", "=">>
                    => item[2] = <<"a", "+", "%", "3", "D">>
              /\ p[i][2] = <<"x">> => item[2] = <<"x">>

C9_Witness ==
    /\ Op("merchant")
    /\ Returned
    /\ call.kwargs = << <<"m_sign", <<"a", " ", "=">> >>, <<"custom", <<"x">> >> >>
    /\ DictGet(ret.value.params, "m_sign") = <<"a", " ", "=">>
    /\ ret.value.signature # <<"a", " ", "=">>

CredentialKeys == {"account", "apiId", "apiPass"}

(* C10: every request posted by request_api, and so by every named action,  *)
(* carries the client's own account, apiId and apiPass even when the caller *)
(* passes parameters of those names; every other parameter given to         *)
(* request_api is posted unchanged (history posts the caller's parameters   *)
(* with action "history"); the client's credentials stay as constructed.    *)
C10_OwnCredentialsPosted ==
    /\ self = PayeerApi(PAYEER["ACCOUNT"], PAYEER["API_ID"], PAYEER["API_PASS"],
                        PAYEER["MERCHANT_ID"], PAYEER["MERCHANT_SECRET_KEY"])
    /\ \A i \in 1..Len(http) :
          LET data == http[i].data
              args == http[i].args
          IN  /\ data["account"] = PAYEER["ACCOUNT"]
              /\ data["apiId"] = PAYEER["API_ID"]
              /\ data["apiPass"] = PAYEER["API_PASS"]
              /\ DOMAIN data = DOMAIN args \cup CredentialKeys
              /\ \A k \in DOMAIN args \ CredentialKeys : data[k] = args[k]
              /\ Op("request_api") => args = call.params
              /\ Op("history") =>
                    /\ data["action"] = <<"history">>
                    /\ \A k \in DOMAIN call.params \ (CredentialKeys \cup {"action"}) :
                          data[k] = call.params[k]

C10_Witness ==
    /\ Op("history")
    /\ Len(http) = 1
    /\ "account" \in DOMAIN call.params
    /\ "sort" \in DOMAIN call.params
    /\ call.params["account"] # self.account
    /\ http[1].data["account"] = self.account
    /\ http[1].data["sort"] = call.params["sort"]

====
